---- MODULE Spec2Model ----
(***************************************************************************)
(* Model of preprocessing_module.py: the capture session                   *)
(* PreprocessingPipeline.get_data_live, the word list, the keypoint        *)
(* selector and flattener, Normalizer.normalize_based_on_shoulders and     *)
(* Calculator.calculate_hand_lines.                                        *)
(*                                                                         *)
(* Numbers.  A float is modelled as an exact rational <<n, d>> with d > 0  *)
(* in lowest terms; the three values a numpy division by zero can produce  *)
(* are NaN = <<0,0>>, +inf = <<1,0>> and -inf = <<-1,0>>.  Rounding of     *)
(* binary64 arithmetic is not modelled.  math.hypot is exact whenever the  *)
(* squared distance is the square of a rational, which holds for every     *)
(* input the specifications below draw.                                    *)
(***************************************************************************)
EXTENDS Integers, Sequences, FiniteSets

VARIABLES pc, capture, wordfile, word, sample_count, frame_count,
          sample, frame_num, stop, results, keys, flat, nres,
          saved, last_saved, error,
          xform, nres_x, hand, line_data

vars == <<pc, capture, wordfile, word, sample_count, frame_count,
          sample, frame_num, stop, results, keys, flat, nres,
          saved, last_saved, error,
          xform, nres_x, hand, line_data>>

----------------------------------------------------------------------------
(* Bounds of the model *)
MaxSamples == 2
MaxFrames == 2
MaxWordLen == 2
MaxFileLen == 6
MaxHandScale == 2

----------------------------------------------------------------------------
(* Float arithmetic *)
Abs(n) == IF n < 0 THEN -n ELSE n

RECURSIVE GCD(_, _)
GCD(a, b) == IF b = 0 THEN a ELSE GCD(b, a % b)

Q(n, d) ==
  LET g == GCD(Abs(n), Abs(d))
      s == IF d < 0 THEN -1 ELSE 1
  IN  <<(s * n) \div g, (s * d) \div g>>

Zero == <<0, 1>>
Half == <<1, 2>>
NaN == <<0, 0>>
PosInf == <<1, 0>>
NegInf == <<-1, 0>>

IsFinite(a) == a[2] # 0

FAdd(a, b) == Q(a[1] * b[2] + b[1] * a[2], a[2] * b[2])
FSub(a, b) == Q(a[1] * b[2] - b[1] * a[2], a[2] * b[2])
FMul(a, b) == Q(a[1] * b[1], a[2] * b[2])
FLess(a, b) == a[1] * b[2] < b[1] * a[2]
FLeq(a, b) == a[1] * b[2] <= b[1] * a[2]

(* a / b on Python floats: b = 0 raises ZeroDivisionError, which the callers
   test before dividing *)
FDivPy(a, b) == Q(a[1] * b[2], a[2] * b[1])

(* a / b on numpy float64: no exception, b = 0 gives nan or +-inf *)
FDivNp(a, b) ==
  IF b[1] = 0
  THEN IF a[1] = 0 THEN NaN ELSE IF a[1] > 0 THEN PosInf ELSE NegInf
  ELSE Q(a[1] * b[2], a[2] * b[1])

(* floor of the square root of a natural number *)
ISqrt(n) == CHOOSE k \in 0..n : k * k <= n /\ (k + 1) * (k + 1) > n

(* math.hypot(dx, dy): exact when dx^2 + dy^2 is the square of a rational;
   zero exactly when dx = dy = 0 *)
hypot(dx, dy) ==
  LET q == FAdd(FMul(dx, dx), FMul(dy, dy))
  IN  Q(ISqrt(q[1]), ISqrt(q[2]))

np_min(s) == CHOOSE m \in {s[i] : i \in 1..Len(s)} : \A i \in 1..Len(s) : FLeq(m, s[i])
np_max(s) == CHOOSE m \in {s[i] : i \in 1..Len(s)} : \A i \in 1..Len(s) : FLeq(s[i], m)
np_ptp(s) == FSub(np_max(s), np_min(s))

(* a point [x, y] with coordinates a/d and b/d *)
P(a, b, d) == <<Q(a, d), Q(b, d)>>

np_zeros(n) == [i \in 1..n |-> <<Zero, Zero>>]

Range(s) == {s[i] : i \in 1..Len(s)}

----------------------------------------------------------------------------
(* PreprocessingPipeline._get_keypoints and _flatten *)
None == <<>>

shoulder_points == <<12, 0, 11>>

(* variant: the two shoulders taken in the opposite order, 11, 0, 12 *)
_get_keypoints_swapped(res) ==
  LET pose == IF res.pose_landmarks # None THEN res.pose_landmarks
              ELSE np_zeros(33)
      shoulders == <<pose[11 + 1], pose[0 + 1], pose[12 + 1]>>
      lhand == IF res.left_hand_landmarks # None THEN res.left_hand_landmarks
               ELSE np_zeros(21)
      rhand == IF res.right_hand_landmarks # None THEN res.right_hand_landmarks
               ELSE np_zeros(21)
  IN  <<shoulders, lhand, rhand>>

_get_keypoints(res) ==
  LET pose == IF res.pose_landmarks # None THEN res.pose_landmarks
              ELSE np_zeros(33)
      shoulders == [i \in 1..3 |-> pose[shoulder_points[i] + 1]]
      lhand == IF res.left_hand_landmarks # None THEN res.left_hand_landmarks
               ELSE np_zeros(21)
      rhand == IF res.right_hand_landmarks # None THEN res.right_hand_landmarks
               ELSE np_zeros(21)
  IN  <<shoulders, lhand, rhand>>

(* np.array(part).flatten(): the points of one group, x then y of each *)
FlattenPart(part) ==
  [i \in 1..(2 * Len(part)) |-> part[(i + 1) \div 2][2 - (i % 2)]]

_flatten(k) == FlattenPart(k[1]) \o FlattenPart(k[2]) \o FlattenPart(k[3])

----------------------------------------------------------------------------
(* Normalizer *)
base_shoulder_scale == <<1, 4>>

reshape(data) == [i \in 1..(Len(data) \div 2) |-> <<data[2 * i - 1], data[2 * i]>>]

_get_centroid(sp) ==
  <<FDivPy(FAdd(FAdd(sp[1][1], sp[2][1]), sp[3][1]), <<3, 1>>),
    FDivPy(FAdd(FAdd(sp[1][2], sp[2][2]), sp[3][2]), <<3, 1>>)>>

(* variant: the centroid's x used for both axes *)
_get_adjustment_distances_x_only(sp) ==
  LET centroid == _get_centroid(sp)
  IN  <<FSub(Half, centroid[1]), FSub(Half, centroid[1])>>

_get_adjustment_distances(sp) ==
  LET centroid == _get_centroid(sp)
  IN  <<FSub(Half, centroid[1]), FSub(Half, centroid[2])>>

_adjust_positions(data, adj_dist) ==
  [i \in 1..Len(data) |->
     <<FAdd(data[i][1], adj_dist[1]), FAdd(data[i][2], adj_dist[2])>>]

(* A result that may be an exception: exc = "none" and val, or the name of
   the exception raised *)
Ok(v) == [exc |-> "none", val |-> v]
Raise(e) == [exc |-> e, val |-> <<>>]

(* variant: the reference taken between the two shoulders, points 0 and 2 *)
_get_scale_outer(sp) ==
  LET shoulder_dist == hypot(FSub(sp[3][1], sp[1][1]), FSub(sp[3][2], sp[1][2]))
  IN  IF shoulder_dist = Zero
      THEN Raise("ZeroDivisionError")
      ELSE Ok(FDivPy(base_shoulder_scale, shoulder_dist))

_get_scale(sp) ==
  LET shoulder_dist == hypot(FSub(sp[2][1], sp[1][1]), FSub(sp[2][2], sp[1][2]))
  IN  IF shoulder_dist = Zero
      THEN Raise("ZeroDivisionError")
      ELSE Ok(FDivPy(base_shoulder_scale, shoulder_dist))

_normalize_scale(data, sp) ==
  LET scale == _get_scale(sp)
      flat_data == FlattenPart(data)
  IN  IF scale.exc # "none" THEN Raise(scale.exc)
      ELSE Ok([i \in 1..Len(flat_data) |-> FMul(flat_data[i], scale.val)])

(* variant: the hand values left in point-major order *)
_separate_xy_point_major(data) == SubSeq(data, 7, Len(data))

_separate_xy(data) ==
  LET pts == reshape(SubSeq(data, 7, Len(data)))
  IN  [i \in 1..(2 * Len(pts)) |->
         IF i <= Len(pts) THEN pts[i][1] ELSE pts[i - Len(pts)][2]]

(* variant: divided by the maximum instead of the range *)
_clean_data_by_max(data) ==
  LET separated_data == _separate_xy(data)
      lo == np_min(separated_data)
      hi == np_max(separated_data)
  IN  [i \in 1..Len(separated_data) |-> FDivNp(FSub(separated_data[i], lo), hi)]

(* variant: the minimum not subtracted *)
_clean_data_no_min(data) ==
  LET separated_data == _separate_xy(data)
      ptp == np_ptp(separated_data)
  IN  [i \in 1..Len(separated_data) |-> FDivNp(separated_data[i], ptp)]

_clean_data(data) ==
  LET separated_data == _separate_xy(data)
      lo == np_min(separated_data)
      ptp == np_ptp(separated_data)
  IN  [i \in 1..Len(separated_data) |-> FDivNp(FSub(separated_data[i], lo), ptp)]

normalize_based_on_shoulders(data) ==
  LET pts == reshape(data)
      sp == SubSeq(pts, 1, 3)
      adj_dist == _get_adjustment_distances(sp)
      adj_data == _adjust_positions(pts, adj_dist)
      scaled_data == _normalize_scale(adj_data, sp)
  IN  IF scaled_data.exc # "none" THEN Raise(scaled_data.exc)
      ELSE Ok(_clean_data(scaled_data.val))

----------------------------------------------------------------------------
(* Calculator *)
line_pairs ==
  << <<4, 3>>, <<3, 2>>, <<2, 1>>, <<1, 0>>, <<8, 7>>,
     <<7, 6>>, <<6, 5>>, <<5, 0>>, <<12, 11>>, <<11, 10>>,
     <<10, 9>>, <<16, 15>>, <<15, 14>>, <<14, 13>>, <<20, 19>>,
     <<19, 18>>, <<18, 17>>, <<17, 0>>, <<5, 9>>, <<9, 13>>, <<13, 17>> >>

(* variant: the city-block distance |dx| + |dy| *)
calculate_hand_lines_manhattan(h) ==
  [i \in 1..Len(line_pairs) |->
     LET p0 == h[line_pairs[i][1] + 1]
         p1 == h[line_pairs[i][2] + 1]
         dx == FSub(p1[1], p0[1])
         dy == FSub(p1[2], p0[2])
     IN  FAdd(Q(Abs(dx[1]), dx[2]), Q(Abs(dy[1]), dy[2]))]

calculate_hand_lines(h) ==
  [i \in 1..Len(line_pairs) |->
     LET p0 == h[line_pairs[i][1] + 1]
         p1 == h[line_pairs[i][2] + 1]
     IN  hypot(FSub(p1[1], p0[1]), FSub(p1[2], p0[2]))]

----------------------------------------------------------------------------
(* PreprocessingPipeline._update_wordlist.  A word and the content of
   word_list.txt are sequences of characters; a file is [exists, content] *)
Whitespace == {" ", "\n"}

RECURSIVE rstrip(_)
rstrip(w) ==
  IF w = <<>> THEN w
  ELSE IF w[Len(w)] \in Whitespace THEN rstrip(SubSeq(w, 1, Len(w) - 1))
  ELSE w

(* iterating an open text file: the content cut after each newline, each
   line keeping its newline *)
RECURSIVE readlines(_)
readlines(s) ==
  IF s = <<>> THEN <<>>
  ELSE LET ends == {i \in 1..Len(s) : s[i] = "\n"} \cup {Len(s)}
           k == CHOOSE i \in ends : \A j \in ends : i <= j
       IN  <<SubSeq(s, 1, k)>> \o readlines(SubSeq(s, k + 1, Len(s)))

_update_wordlist(file, w) ==
  LET created == IF file.exists THEN file ELSE [exists |-> TRUE, content |-> <<>>]
      lines == readlines(created.content)
      current_words == [i \in 1..Len(lines) |-> rstrip(lines[i])]
  IN  IF w \notin Range(current_words)
      THEN [created EXCEPT !.content = @ \o w \o <<"\n">>]
      ELSE created

----------------------------------------------------------------------------
(* Inputs *)

(* the characters words are made of *)
Alphabet == {"a", "b", " "}

WordsOfLen(n) == [1..n -> Alphabet]
Words == UNION {WordsOfLen(n) : n \in 0..MaxWordLen}

(* the word a capture session is started with *)
SessionWords == {<<"a">>}

NoFile == [exists |-> FALSE, content |-> <<>>]

(* shoulder/head triples [right shoulder, head, left shoulder] a pose
   detection reports: centred with a horizontal reference, off-centre with
   a 3-4-5 reference, off-centre with a vertical reference, and one whose
   first two points coincide *)
ShoulderTriples ==
  { <<P(4, 5, 10), P(5, 5, 10), P(6, 5, 10)>>,
    <<P(2, 2, 10), P(5, 6, 10), P(8, 2, 10)>>,
    <<P(5, 2, 10), P(5, 7, 10), P(9, 4, 10)>>,
    <<P(3, 3, 10), P(3, 3, 10), P(7, 3, 10)>> }

(* the 33 pose landmarks around a shoulder/head triple *)
PoseOf(sh) ==
  [i \in 1..33 |->
     IF i = 13 THEN sh[1] ELSE IF i = 1 THEN sh[2] ELSE IF i = 12 THEN sh[3]
     ELSE P(i, i, 100)]

Poses == {PoseOf(sh) : sh \in ShoulderTriples}

(* 21 hand landmarks: all at one point, or spread over a grid *)
HandAllAt(p) == [i \in 1..21 |-> p]
HandSpread(m) == [i \in 1..21 |-> P(1 + (((i - 1) * m) % 7), 2 + (((i - 1) * (m + 1)) % 5), 10)]

DetectedHands == {HandAllAt(P(5, 5, 10)), HandSpread(1)}

(* what Tracker.detect can return for a frame *)
Detections ==
  [pose_landmarks : Poses \cup {None},
   left_hand_landmarks : DetectedHands \cup {None},
   right_hand_landmarks : DetectedHands \cup {None}]

----------------------------------------------------------------------------
(* PreprocessingPipeline.get_data_live.  pc: "init" before the call, "loop"
   inside the sample/frame loops, "finish" at line 71, "done" after a normal
   return, "returned" after the early return of line 32, "raised" when an
   exception left the call. *)
NotCalled == [exc |-> "uncalled", val |-> <<>>]

PureIdle ==
  /\ xform = [kind |-> "none", a |-> Zero, b |-> Zero, s |-> Zero]
  /\ nres_x = NotCalled
  /\ hand = <<>>
  /\ line_data = <<>>

SessionIdle ==
  /\ pc = "init"
  /\ capture = "none"
  /\ word = <<>>
  /\ sample_count = 0
  /\ frame_count = 0
  /\ sample = 0
  /\ frame_num = 0
  /\ stop = FALSE
  /\ results = [pose_landmarks |-> None, left_hand_landmarks |-> None,
                right_hand_landmarks |-> None]
  /\ keys = <<>>
  /\ saved = {}
  /\ last_saved = <<>>
  /\ error = "none"

Init ==
  /\ SessionIdle
  /\ PureIdle
  /\ flat = <<>>
  /\ nres = NotCalled
  /\ wordfile \in {NoFile, [exists |-> TRUE, content |-> <<"a", "\n">>]}

(* lines 27-32: the capture is opened, data_path is not a directory *)
BeginNoDir ==
  /\ pc = "init"
  /\ \E w \in SessionWords, sc \in 0..MaxSamples, fc \in 0..MaxFrames :
       /\ word' = w
       /\ sample_count' = sc
       /\ frame_count' = fc
  /\ stop' = FALSE
  /\ capture' = "open"
  /\ pc' = "returned"
  /\ UNCHANGED <<wordfile, sample, frame_num, results, keys, flat, nres,
                 saved, last_saved, error, xform, nres_x, hand, line_data>>

(* lines 27-37: the capture is opened, the word list updated, the intro
   pause taken (it reads and shows frames only) and the loops entered *)
Begin ==
  /\ pc = "init"
  /\ \E w \in SessionWords, sc \in 0..MaxSamples, fc \in 0..MaxFrames :
       /\ word' = w
       /\ sample_count' = sc
       /\ frame_count' = fc
       /\ wordfile' = _update_wordlist(wordfile, w)
       /\ pc' = IF sc > 0 /\ fc > 0 THEN "loop" ELSE "finish"
  /\ stop' = FALSE
  /\ capture' = "open"
  /\ sample' = 0
  /\ frame_num' = 0
  /\ UNCHANGED <<results, keys, flat, nres, saved, last_saved, error,
                 xform, nres_x, hand, line_data>>

(* lines 38-55 for one frame: detect, select, flatten, normalize *)
Process(res) ==
  /\ results' = res
  /\ keys' = _get_keypoints(res)
  /\ flat' = _flatten(_get_keypoints(res))
  /\ nres' = normalize_based_on_shoulders(_flatten(_get_keypoints(res)))

(* line 55 raised: the exception leaves get_data_live *)
NormalizerRaises ==
  /\ error' = nres'.exc
  /\ pc' = "raised"
  /\ UNCHANGED <<sample, frame_num, stop, saved, last_saved>>

(* lines 58-62 raise (os.makedirs or np.save fails) *)
SaveRaises ==
  /\ error' = "OSError"
  /\ pc' = "raised"
  /\ UNCHANGED <<sample, frame_num, stop, saved, last_saved>>

(* lines 58-62: np.save writes the vector to data_path/word/sample/frame_num.npy *)
Save ==
  /\ last_saved' = nres'.val
  /\ saved' = saved \cup {<<sample, frame_num>>}

(* lines 65-70: 'q' is pressed *)
StopKey ==
  /\ stop' = TRUE
  /\ pc' = "finish"
  /\ UNCHANGED <<sample, frame_num, error>>

(* line 65 and the loop headers of lines 37-38: no 'q', the next frame *)
NextFrame ==
  /\ IF frame_num + 1 < frame_count
     THEN /\ frame_num' = frame_num + 1
          /\ sample' = sample
          /\ pc' = "loop"
     ELSE IF sample + 1 < sample_count
     THEN /\ frame_num' = 0
          /\ sample' = sample + 1
          /\ pc' = "loop"
     ELSE /\ UNCHANGED <<sample, frame_num>>
          /\ pc' = "finish"
  /\ UNCHANGED <<stop, error>>

(* one iteration of the frame loop, lines 38-67; the pause of line 41 and
   the drawing of lines 43-49 read and show frames only *)
Frame ==
  /\ pc = "loop"
  /\ \E res \in Detections :
       /\ Process(res)
       /\ IF nres'.exc # "none"
          THEN NormalizerRaises
          ELSE \/ Save /\ NextFrame
               \/ Save /\ StopKey
               \/ SaveRaises
  /\ UNCHANGED <<capture, wordfile, word, sample_count, frame_count,
                 xform, nres_x, hand, line_data>>

(* lines 68-74 *)
Finish ==
  /\ pc = "finish"
  /\ capture' = "released"
  /\ pc' = "done"
  /\ UNCHANGED <<wordfile, word, sample_count, frame_count, sample,
                 frame_num, stop, results, keys, flat, nres, saved,
                 last_saved, error, xform, nres_x, hand, line_data>>

Next ==
  \/ BeginNoDir
  \/ Begin
  \/ Frame
  \/ Finish

Spec == Init /\ [][Next]_vars

----------------------------------------------------------------------------
(* The word list under repeated calls of _update_wordlist on one data_path *)
InitWordlist ==
  /\ SessionIdle
  /\ PureIdle
  /\ flat = <<>>
  /\ nres = NotCalled
  /\ wordfile = NoFile

UpdateWordlist ==
  /\ \E w \in Words :
       /\ Len(wordfile.content) + Len(w) + 1 <= MaxFileLen
       /\ word' = w
       /\ wordfile' = _update_wordlist(wordfile, w)
  /\ UNCHANGED <<pc, capture, sample_count, frame_count, sample, frame_num,
                 stop, results, keys, flat, nres, saved, last_saved, error,
                 xform, nres_x, hand, line_data>>

NextWordlist == UpdateWordlist

SpecWordlist == InitWordlist /\ [][NextWordlist]_vars

----------------------------------------------------------------------------
(* The pure transforms on their own: normalize_based_on_shoulders on a
   flattened input and on the same input moved by xform, and
   calculate_hand_lines on a hand *)

(* every point p moved to p + (a, b) (kind "shift") or to o + s * (p - o)
   with o = (a, b) (kind "scale") *)
Moved(x, data) ==
  [i \in 1..Len(data) |->
     LET c == IF i % 2 = 1 THEN x.a ELSE x.b
     IN  IF x.kind = "shift" THEN FAdd(data[i], c)
         ELSE FAdd(c, FMul(x.s, FSub(data[i], c)))]

Shifts ==
  {[kind |-> "shift", a |-> v[1], b |-> v[2], s |-> <<1, 1>>] :
     v \in {P(1, 0, 10), P(1, -3, 10), P(-2, 5, 10), P(2, 2, 1)}}

Scalings ==
  {[kind |-> "scale", a |-> o[1], b |-> o[2], s |-> f] :
     o \in {P(0, 0, 1), P(1, 1, 2), P(5, 1, 5)},
     f \in {<<1, 2>>, <<2, 1>>, <<3, 1>>}}

(* the flattened keypoints of the detections above and of detections with
   one more hand shape *)
NormalizerInputs ==
  {_flatten(_get_keypoints(r)) :
     r \in [pose_landmarks : Poses \cup {None},
            left_hand_landmarks : DetectedHands \cup {HandSpread(3), None},
            right_hand_landmarks : DetectedHands \cup {HandSpread(3), None}]}

(* hands on the corners of a 3 x 4 rectangle, enlarged s times: every
   distance between two landmarks is an integer *)
Corner(j) == <<P(0, 0, 1), P(3, 0, 1), P(0, 4, 1), P(3, 4, 1)>>[j + 1]

CornerHand(c, m, s) ==
  [i \in 1..21 |->
     LET q == Corner((c + m * (i - 1)) % 4)
     IN  <<FMul(<<s, 1>>, q[1]), FMul(<<s, 1>>, q[2])>>]

CalculatorHands ==
  {CornerHand(c, m, s) : c \in 0..3, m \in 0..3, s \in 1..MaxHandScale}

InitPure ==
  /\ capture = "none"
  /\ wordfile = NoFile
  /\ word = <<>>
  /\ sample_count = 0
  /\ frame_count = 0
  /\ sample = 0
  /\ frame_num = 0
  /\ stop = FALSE
  /\ results = [pose_landmarks |-> None, left_hand_landmarks |-> None,
                right_hand_landmarks |-> None]
  /\ keys = <<>>
  /\ saved = {}
  /\ last_saved = <<>>
  /\ error = "none"
  /\ nres = NotCalled
  /\ nres_x = NotCalled
  /\ line_data = <<>>
  /\ \/ /\ pc = "call_normalize"
        /\ flat \in NormalizerInputs
        /\ xform \in Shifts \cup Scalings
        /\ hand = <<>>
     \/ /\ pc = "call_calculate"
        /\ hand \in CalculatorHands
        /\ flat = <<>>
        /\ xform = [kind |-> "none", a |-> Zero, b |-> Zero, s |-> Zero]

NormalizeCall ==
  /\ pc = "call_normalize"
  /\ nres' = normalize_based_on_shoulders(flat)
  /\ nres_x' = normalize_based_on_shoulders(Moved(xform, flat))
  /\ pc' = "returned_normalize"
  /\ UNCHANGED <<capture, wordfile, word, sample_count, frame_count, sample,
                 frame_num, stop, results, keys, flat, saved, last_saved,
                 error, xform, hand, line_data>>

CalculateCall ==
  /\ pc = "call_calculate"
  /\ line_data' = calculate_hand_lines(hand)
  /\ pc' = "returned_calculate"
  /\ UNCHANGED <<capture, wordfile, word, sample_count, frame_count, sample,
                 frame_num, stop, results, keys, flat, nres, saved,
                 last_saved, error, xform, nres_x, hand>>

NextPure == NormalizeCall \/ CalculateCall

SpecPure == InitPure /\ [][NextPure]_vars

----------------------------------------------------------------------------
(* Properties *)

(* the first two shoulder/head points of a 90-scalar input coincide *)
RefCoincide(d) == d[1] = d[3] /\ d[2] = d[4]

(* the mean of the three shoulder/head x (c = 1) or y (c = 2) coordinates *)
ShoulderMean(d, c) ==
  FDivPy(FAdd(FAdd(d[c], d[2 + c]), d[4 + c]), <<3, 1>>)

(* the recentred coordinate behind output position i: the x of hand point i
   for i in 1..42, the y of hand point i - 42 for i in 43..84, each less the
   shoulder mean of its axis; the scaled value is this times k, plus k/2 *)
HandValue(d, i) ==
  IF i <= 42 THEN FSub(d[6 + 2 * i - 1], ShoulderMean(d, 1))
  ELSE FSub(d[6 + 2 * (i - 42)], ShoulderMean(d, 2))

AllHandValuesEqual(d) == \A i \in 1..84 : HandValue(d, i) = HandValue(d, 1)

NonDegenerate(d) == ~RefCoincide(d) /\ ~AllHandValuesEqual(d)

HasNaNOrInf(v) == \E i \in 1..Len(v) : ~IsFinite(v[i])

(* C1: when the first two shoulder/head points of the frame coincide, the
   call of the normalizer ends in a failure (ZeroDivisionError from
   _get_scale): no vector is returned, so no NaN or infinite value, the
   failure leaves get_data_live and the frame is not saved *)
C1_DegenerateScaleReference ==
  (nres.exc # "uncalled" /\ RefCoincide(flat)) =>
     /\ nres.exc = "ZeroDivisionError"
     /\ nres.val = <<>>
     /\ pc = "raised"
     /\ error = "ZeroDivisionError"
     /\ <<sample, frame_num>> \notin saved

C1_Witness ==
  /\ pc = "raised"
  /\ results.pose_landmarks = None
  /\ RefCoincide(flat)
  /\ nres.exc = "ZeroDivisionError"
  /\ saved # {}

(* C2: when the shoulder reference is non-zero and all 84 hand values are
   equal, the normalizer reports a failure instead of returning a vector
   divided by the zero range, and no such vector is saved *)
C2_DegenerateRangeReported ==
  (nres.exc # "uncalled" /\ ~RefCoincide(flat) /\ AllHandValuesEqual(flat)) =>
     /\ nres.exc # "none"
     /\ ~HasNaNOrInf(nres.val)
     /\ ~HasNaNOrInf(last_saved)

(* C3: for a non-degenerate input every element of the output is in [0, 1],
   one is exactly 0 and one is exactly 1 *)
C3_Range ==
  (pc = "returned_normalize" /\ NonDegenerate(flat)) =>
     /\ nres.exc = "none"
     /\ Len(nres.val) = 84
     /\ \A i \in 1..84 :
          /\ IsFinite(nres.val[i])
          /\ FLeq(Zero, nres.val[i])
          /\ FLeq(nres.val[i], <<1, 1>>)
     /\ \E i \in 1..84 : nres.val[i] = Zero
     /\ \E i \in 1..84 : nres.val[i] = <<1, 1>>

C3_Witness ==
  /\ pc = "returned_normalize"
  /\ NonDegenerate(flat)
  /\ nres.exc = "none"
  /\ \E i \in 1..84 : FLess(Zero, nres.val[i]) /\ FLess(nres.val[i], <<1, 1>>)

(* C4: for a non-degenerate input, shifting all 45 points by one vector
   (dx, dy) leaves the output unchanged *)
C4_TranslationInvariance ==
  (pc = "returned_normalize" /\ xform.kind = "shift" /\ NonDegenerate(flat)) =>
     /\ nres.exc = "none"
     /\ nres_x = nres

C4_Witness ==
  /\ pc = "returned_normalize"
  /\ xform.kind = "shift"
  /\ xform.a # xform.b
  /\ NonDegenerate(flat)
  /\ nres.exc = "none"
  /\ nres_x.exc = "none"
  /\ \E i \in 1..84 : FLess(Zero, nres_x.val[i]) /\ FLess(nres_x.val[i], <<1, 1>>)

(* C5: for a non-degenerate input, replacing every point p by o + s*(p - o)
   with s > 0 leaves the output unchanged *)
C5_ScaleInvariance ==
  (pc = "returned_normalize" /\ xform.kind = "scale" /\ NonDegenerate(flat)) =>
     /\ nres.exc = "none"
     /\ nres_x = nres

C5_Witness ==
  /\ pc = "returned_normalize"
  /\ xform.kind = "scale"
  /\ xform.s = <<1, 2>>
  /\ <<xform.a, xform.b>> # <<Zero, Zero>>
  /\ NonDegenerate(flat)
  /\ nres.exc = "none"
  /\ nres_x.exc = "none"
  /\ \E i \in 1..84 : FLess(Zero, nres_x.val[i]) /\ FLess(nres_x.val[i], <<1, 1>>)

(* C6: whichever groups a detection holds, the selector returns 3, 21 and 21
   points in the order shoulders, left hand, right hand; the shoulders are
   pose landmarks 12, 0, 11; an absent group is all zeros; the flattened
   result has 90 elements, the points in that order, x before y *)
ZeroGroup(g) == \A i \in 1..Len(g) : g[i] = <<Zero, Zero>>

C6_ShapeStability ==
  keys # <<>> =>
     /\ Len(keys) = 3
     /\ Len(keys[1]) = 3 /\ Len(keys[2]) = 21 /\ Len(keys[3]) = 21
     /\ IF results.pose_landmarks = None THEN ZeroGroup(keys[1])
        ELSE /\ keys[1][1] = results.pose_landmarks[12 + 1]
             /\ keys[1][2] = results.pose_landmarks[0 + 1]
             /\ keys[1][3] = results.pose_landmarks[11 + 1]
     /\ IF results.left_hand_landmarks = None THEN ZeroGroup(keys[2])
        ELSE keys[2] = results.left_hand_landmarks
     /\ IF results.right_hand_landmarks = None THEN ZeroGroup(keys[3])
        ELSE keys[3] = results.right_hand_landmarks
     /\ Len(flat) = 90
     /\ \A j \in 1..45 :
          LET pt == (keys[1] \o keys[2] \o keys[3])[j]
          IN  flat[2 * j - 1] = pt[1] /\ flat[2 * j] = pt[2]

C6_Witness ==
  /\ keys # <<>>
  /\ results.pose_landmarks # None
  /\ results.left_hand_landmarks = None
  /\ results.right_hand_landmarks # None
  /\ keys[1][1] # keys[1][3]
  /\ Len(flat) = 90

(* C7: the calculator returns 21 values, the i-th the Euclidean distance
   between the two points the i-th pair names: 21 zeros for a hand of 21
   equal points, and 5 at the place of pair (17, 0), the 18th, for point 0
   at (0,0) and point 17 at (3,4) *)
C7_HandLines ==
  pc = "returned_calculate" =>
     /\ Len(line_data) = 21
     /\ \A i \in 1..21 :
          LET p0 == hand[line_pairs[i][1] + 1]
              p1 == hand[line_pairs[i][2] + 1]
              dx == FSub(p1[1], p0[1])
              dy == FSub(p1[2], p0[2])
          IN  /\ FLeq(Zero, line_data[i])
              /\ FMul(line_data[i], line_data[i]) = FAdd(FMul(dx, dx), FMul(dy, dy))
     /\ (\A i \in 1..21 : hand[i] = hand[1]) =>
          \A i \in 1..21 : line_data[i] = Zero
     /\ (hand[0 + 1] = P(0, 0, 1) /\ hand[17 + 1] = P(3, 4, 1)) =>
          /\ line_pairs[18] = <<17, 0>>
          /\ line_data[18] = <<5, 1>>

C7_Witness ==
  /\ pc = "returned_calculate"
  /\ hand[0 + 1] = P(0, 0, 1)
  /\ hand[17 + 1] = P(3, 4, 1)
  /\ line_data[18] = <<5, 1>>
  /\ \E i \in 1..21 : line_data[i] = <<3, 1>>

(* C8: word_list.txt never holds a line twice *)
FileLines(f) ==
  LET ls == readlines(f.content)
  IN  [i \in 1..Len(ls) |->
         IF ls[i][Len(ls[i])] = "\n" THEN SubSeq(ls[i], 1, Len(ls[i]) - 1)
         ELSE ls[i]]

C8_NoLineTwice ==
  \A i, j \in 1..Len(FileLines(wordfile)) :
     i # j => FileLines(wordfile)[i] # FileLines(wordfile)[j]

(* C9: the output is coordinate-major over the 42 hand points: position i
   (1..42) comes from the x of input point 3 + i, position 42 + i from its
   y, all 84 through one increasing affine map of the recentred
   coordinates, the one sending their minimum to 0 and their maximum to 1;
   the shoulder/head points give no position *)
C9_Layout ==
  (pc = "returned_normalize" /\ NonDegenerate(flat)) =>
     /\ nres.exc = "none"
     /\ Len(nres.val) = 84
     /\ LET src == [i \in 1..84 |-> HandValue(flat, i)]
            lo == CHOOSE m \in Range(src) : \A v \in Range(src) : FLeq(m, v)
            hi == CHOOSE m \in Range(src) : \A v \in Range(src) : FLeq(v, m)
        IN  \A i \in 1..84 :
              FMul(nres.val[i], FSub(hi, lo)) = FSub(src[i], lo)

C9_Witness ==
  /\ pc = "returned_normalize"
  /\ NonDegenerate(flat)
  /\ nres.exc = "none"
  /\ flat[7] # flat[8]
  /\ nres.val[1] # nres.val[43]
  /\ nres.val[1] # nres.val[2]
  /\ ShoulderMean(flat, 1) # ShoulderMean(flat, 2)

(* C10: no run of get_data_live ends with the capture still open *)
C10_CaptureReleased ==
  pc \in {"returned", "raised", "done"} => capture = "released"

====
